---------------------------- MODULE Spec2Model ----------------------------
(***************************************************************************)
(* Model of the store backend (src/index.js): an Express application over  *)
(* ONE module-level node-sqlite3 connection `db`.                          *)
(*                                                                         *)
(* Three layers are modelled:                                              *)
(*   - the SQLite connection: the three tables, the autoincrement          *)
(*     counters, and the single transaction of the connection (BEGIN       *)
(*     copies the tables into `journal`, ROLLBACK restores them, COMMIT    *)
(*     makes them durable);                                                *)
(*   - node-sqlite3's scheduling of statements on that connection: the     *)
(*     Database queue, its `locked` flag and the set of statements in      *)
(*     flight.  Statements issued directly inside db.serialize() are       *)
(*     exclusive; statements issued from a callback (after serialize()     *)
(*     has returned) run in parallel mode, so statements of different      *)
(*     Statement objects execute in any order, while the runs of one       *)
(*     prepared Statement keep their order;                                *)
(*   - the request handlers, translated statement by statement.            *)
(*                                                                         *)
(* One step of ExecStatement is: SQLite executes the statement, then the   *)
(* JavaScript callback given with it runs, then node-sqlite3 starts what   *)
(* became runnable.  A statement that fails and was given no callback      *)
(* emits an 'error' event nobody listens to, which ends the process.       *)
(***************************************************************************)
EXTENDS Integers, Sequences, FiniteSets, TLC

(***************************************************************************)
(* Bounds of the model.                                                    *)
(***************************************************************************)
MaxStock  == 2   \* largest stock value of a seeded or edited item
MaxQty    == 2   \* largest quantity of a purchase line
MaxLines  == 2   \* most lines in one purchase request
MaxReq    == 2   \* purchase requests submitted in one behaviour
MaxCrud   == 1   \* item create/update/delete requests in one behaviour
MaxFaults == 1   \* storage faults injected in one behaviour (SpecFault)

ItemIds == {1, 2}            \* identifiers the items table may hold
Reqs    == 1..MaxReq
Cruds   == 1..MaxCrud

(***************************************************************************)
(* JSON values as the handlers see them: t is the JavaScript type, v the   *)
(* integer value of a number, the integer part of a fraction, or the       *)
(* length of a string.                                                     *)
(***************************************************************************)
Val(t, v) == [t |-> t, v |-> v]
Undefined == Val("undefined", 0)
Num(n)    == Val("number", n)
Frac(n)   == Val("fraction", n)
Str(n)    == Val("string", n)

\* !x
Falsy(x) ==
  \/ x.t \in {"undefined", "null"}
  \/ x.t \in {"number", "string"} /\ x.v = 0

\* Number.isInteger(x)
IsInteger(x) == x.t = "number"

\* typeof x === "number"
IsNumber(x) == x.t \in {"number", "fraction"}

\* typeof x === "string"
IsString(x) == x.t = "string"

\* One element of req.body.items: null, or an object with the two fields.
Line(id, q) == [isNull |-> FALSE, item_id |-> id, quantity |-> q]
NullLine    == [isNull |-> TRUE, item_id |-> Undefined, quantity |-> Undefined]

\* req.body of POST /purchases; items is an array (isArray) of elems or not.
Body(cn, sa, arr, ls) ==
  [customer_name |-> cn, shipping_address |-> sa,
   items |-> [isArray |-> arr, elems |-> ls]]
NoBody == Body(Undefined, Undefined, FALSE, <<>>)

RECURSIVE ValidateLines(_)
\* The per-line loop: the first line that fails decides.  Reading a field
\* of null throws a TypeError.
ValidateLines(ls) ==
  IF ls = <<>> THEN "valid"
  ELSE LET item == Head(ls) IN
       IF item.isNull THEN "throw"
       ELSE IF Falsy(item.item_id) \/ ~IsInteger(item.item_id)
            THEN "Item ID must be an integer"
       ELSE IF ~IsInteger(item.quantity) \/ item.quantity.v <= 0
            THEN "Quantity must be a positive integer"
       ELSE ValidateLines(Tail(ls))

\* The checks of POST /purchases made before db.serialize().
Validate(b) ==
  IF Falsy(b.customer_name) \/ ~IsString(b.customer_name)
    THEN "Customer name is required"
  ELSE IF Falsy(b.shipping_address) \/ ~IsString(b.shipping_address)
    THEN "Shipping address is required"
  ELSE IF ~b.items.isArray \/ Len(b.items.elems) = 0
    THEN "At least one item is required"
  ELSE ValidateLines(b.items.elems)

(***************************************************************************)
(* State.                                                                  *)
(***************************************************************************)
VARIABLES
  tables,     \* the connection's view of items, purchases, purchase_items
  journal,    \* the tables as they were at BEGIN (what ROLLBACK restores)
  inTxn,      \* a transaction is open on the connection
  queue,      \* node-sqlite3 Database queue of calls not yet started
  locked,     \* node-sqlite3 Database.locked
  active,     \* statements in flight (Database.pending is their number)
  preq,       \* per purchase request: handler closure and response
  crud,       \* per item request: its statement and response
  crashed,    \* the process ended on an unhandled 'error' event
  faultsLeft, \* storage faults that may still be injected
  items0      \* the items table at start-up

vars == <<tables, journal, inTxn, queue, locked, active, preq, crud,
          crashed, faultsLeft, items0>>

NoResp == [status |-> 0, error |-> ""]
Resp(s, e) == [status |-> s, error |-> e]

NewReq ==
  [pc |-> "new", body |-> NoBody, purchaseId |-> 0, stockError |-> FALSE,
   insDone |-> 0, updDone |-> 0, resp |-> NoResp]

NewCrud == [op |-> "none", id |-> 0, stock |-> 0, resp |-> NoResp]

\* What survives the process: the tables outside a transaction, the
\* journal inside one.
Persisted == IF inTxn THEN journal ELSE tables

Stmt(o, k) == [o |-> o, k |-> k]

(***************************************************************************)
(* node-sqlite3 scheduling.  A scheduler state is [queue, locked, active]. *)
(***************************************************************************)
Sched(q, l, a) == [queue |-> q, locked |-> l, active |-> a]

\* Database::Schedule for a new Statement: queued when the database is
\* locked or in serialize mode and something is in flight, else started.
Schedule(s, st, serialize) ==
  IF (s.locked \/ serialize) /\ s.active # {}
    THEN Sched(Append(s.queue, [o |-> st.o, k |-> st.k, x |-> serialize]),
               s.locked, s.active)
    ELSE Sched(s.queue, FALSE, s.active \cup {st})

RECURSIVE Process(_)
\* Database::Process: start queued calls; an exclusive call waits until
\* nothing is in flight and then locks the database.
Process(s) ==
  IF (~s.locked \/ s.active = {}) /\ s.queue # <<>>
    THEN LET c == Head(s.queue) IN
         IF c.x /\ s.active # {} THEN s
         ELSE Process(Sched(Tail(s.queue), c.x,
                            s.active \cup {Stmt(c.o, c.k)}))
    ELSE s

\* STATEMENT_END of a statement that is finished: it leaves the set in
\* flight and the queue is processed (v binds the scheduler state once).
EndStatement(s, st) ==
  CHOOSE e \in {Process(Sched(v.queue, v.locked, v.active \ {st})) :
                 v \in {s}} : TRUE

\* STATEMENT_END of a prepared statement with more runs queued: its next
\* run starts at once, so it stays in flight.
ContinueStatement(s) == Process(s)

Here == Sched(queue, locked, active)

SetSched(s) ==
  \E v \in {s} :
    /\ queue' = v.queue
    /\ locked' = v.locked
    /\ active' = v.active

(***************************************************************************)
(* The process ends: statements in flight and queued calls are gone, open  *)
(* requests stay unanswered, and SQLite discards the open transaction.     *)
(***************************************************************************)
Crash ==
  /\ crashed' = TRUE
  /\ tables' = Persisted
  /\ journal' = Persisted
  /\ inTxn' = FALSE
  /\ queue' = <<>>
  /\ locked' = FALSE
  /\ active' = {}

\* A storage fault may hit the statement about to run.
FaultChoices == IF faultsLeft > 0 THEN {FALSE, TRUE} ELSE {FALSE}
UseFault(f) == faultsLeft' = IF f THEN faultsLeft - 1 ELSE faultsLeft


EmptyTables ==
  [items |-> <<>>, purchases |-> {}, purchase_items |-> {},
   seq_items |-> 0, seq_purchases |-> 0]

SetReq(r, f) == preq' = [preq EXCEPT ![r] = f]

\* The lines of request r (const { items } = req.body).
LinesOf(r) == preq[r].body.items.elems

(***************************************************************************)
(* POST /purchases: the synchronous part of the handler.  A TypeError      *)
(* thrown by the validation loop reaches the global error handler.  A      *)
(* valid request issues BEGIN TRANSACTION and the header INSERT inside     *)
(* db.serialize(), i.e. in serialize mode.                                 *)
(***************************************************************************)
PostPurchases(r, b) ==
  /\ ~crashed
  /\ preq[r].pc = "new"
  /\ \A r2 \in Reqs : r2 < r => preq[r2].pc # "new"
  /\ LET v == Validate(b) IN
     IF v = "throw"
       THEN /\ SetReq(r, [preq[r] EXCEPT !.pc = "rejected", !.body = b,
                            !.resp = Resp(500, "Internal Server Error")])
            /\ UNCHANGED <<queue, locked, active>>
     ELSE IF v # "valid"
       THEN /\ SetReq(r, [preq[r] EXCEPT !.pc = "rejected", !.body = b,
                            !.resp = Resp(400, v)])
            /\ UNCHANGED <<queue, locked, active>>
     ELSE /\ SetReq(r, [preq[r] EXCEPT !.pc = "pending", !.body = b])
          /\ SetSched(Schedule(Schedule(Here, Stmt(r, "begin"), TRUE),
                               Stmt(r, "insertPurchase"), TRUE))
  /\ UNCHANGED <<tables, journal, inTxn, crud, crashed, faultsLeft, items0>>

\* BEGIN that joins the transaction already open instead of failing.
RunBeginNested(st, f) ==
  IF f
    THEN Crash /\ UNCHANGED <<preq, crud>>
    ELSE /\ inTxn' = TRUE
         /\ journal' = IF inTxn THEN journal ELSE tables
         /\ SetSched(EndStatement(Here, st))
         /\ UNCHANGED <<tables, preq, crud, crashed>>

(***************************************************************************)
(* db.run("BEGIN TRANSACTION"), no callback: it fails inside an open       *)
(* transaction (the connection has one transaction for all requests), and  *)
(* a failure without a callback ends the process.                          *)
(***************************************************************************)
RunBegin(st, f) ==
  IF f \/ inTxn
    THEN Crash /\ UNCHANGED <<preq, crud>>
    ELSE /\ inTxn' = TRUE
         /\ journal' = tables
         /\ SetSched(EndStatement(Here, st))
         /\ UNCHANGED <<tables, preq, crud, crashed>>

\* The statement the header callback issues after the line loop: the
\* stockError flag as it is when the loop has only queued the runs.
FinalStatement(r, stockError) ==
  IF stockError THEN Stmt(r, "rollback") ELSE Stmt(r, "commit")

\* A purchases.id that does not advance with the sequence.
ReusedPurchaseId(t) == IF t.seq_purchases = 0 THEN 1 ELSE t.seq_purchases

\* id INTEGER PRIMARY KEY AUTOINCREMENT: one more than the largest id the
\* table ever handed out (this.lastID of the INSERT).
NextPurchaseId(t) == t.seq_purchases + 1

(***************************************************************************)
(* INSERT INTO purchases and its callback.  On an error: ROLLBACK and      *)
(* next(err).  Otherwise the callback prepares the two line statements,    *)
(* sets stockError = false, queues one run of each per line, reads         *)
(* stockError and issues ROLLBACK or COMMIT.  The callback runs after      *)
(* db.serialize() has returned, so all of these are issued in parallel     *)
(* mode, while the header statement itself is still in flight.             *)
(***************************************************************************)
RunInsertPurchase(st, f) ==
  LET r == st.o IN
  IF f
    THEN /\ SetSched(EndStatement(Schedule(Here, Stmt(r, "rollback"), FALSE),
                                  st))
         /\ SetReq(r, [preq[r] EXCEPT
                         !.resp = Resp(500, "Internal Server Error")])
         /\ UNCHANGED <<tables, journal, inTxn, crud, crashed>>
    ELSE LET lastID == NextPurchaseId(tables)
             stockError == FALSE
             s1 == Schedule(Here, Stmt(r, "insertPurchaseItem"), FALSE)
             s2 == Schedule(s1, Stmt(r, "updateStock"), FALSE)
             s3 == Schedule(s2, FinalStatement(r, stockError), FALSE)
         IN /\ tables' = [tables EXCEPT
                            !.purchases = @ \cup {[id |-> lastID, req |-> r]},
                            !.seq_purchases = lastID]
            /\ SetReq(r, [preq[r] EXCEPT
                            !.pc = "lines",
                            !.purchaseId = lastID,
                            !.stockError = stockError,
                            !.resp = IF stockError
                                       THEN Resp(400, "Insufficient stock or invalid item")
                                       ELSE @])
            /\ SetSched(EndStatement(s3, st))
            /\ UNCHANGED <<journal, inTxn, crud, crashed>>

(***************************************************************************)
(* insertPurchaseItem.run([purchaseId, item_id, quantity]), no callback:   *)
(* the next queued run of the prepared statement.  Foreign keys are not    *)
(* enforced (no PRAGMA foreign_keys), so only a storage fault fails it.    *)
(***************************************************************************)
RunInsertPurchaseItem(st, f) ==
  LET r == st.o
      i == preq[r].insDone + 1
      line == LinesOf(r)[i]
      row == [purchase_id |-> preq[r].purchaseId, item_id |-> line.item_id.v,
              quantity |-> line.quantity.v, req |-> r, line |-> i]
  IN IF f
       THEN Crash /\ UNCHANGED <<preq, crud>>
       ELSE /\ tables' = [tables EXCEPT !.purchase_items = @ \cup {row}]
            /\ SetReq(r, [preq[r] EXCEPT !.insDone = i])
            /\ SetSched(IF i < Len(LinesOf(r))
                          THEN ContinueStatement(Here)
                          ELSE EndStatement(Here, st))
            /\ UNCHANGED <<journal, inTxn, crud, crashed>>

\* UPDATE items SET stock = stock - q WHERE id = id AND stock >= q:
\* the rows it changes (this.changes) ...
UpdateStockChanges(its, id, q) ==
  IF id \in DOMAIN its /\ its[id] >= q THEN 1 ELSE 0

\* The decrement without its "AND stock >= ?" condition.
UpdateStockItemsUnguarded(its, id, q) ==
  IF id \in DOMAIN its THEN [its EXCEPT ![id] = @ - q] ELSE its

\* The decrement taking one unit whatever the quantity.
UpdateStockItemsByOne(its, id, q) ==
  IF id \in DOMAIN its /\ its[id] >= q
    THEN [its EXCEPT ![id] = @ - 1]
    ELSE its

\* ... and the items table after it.
UpdateStockItems(its, id, q) ==
  IF id \in DOMAIN its /\ its[id] >= q
    THEN [its EXCEPT ![id] = @ - q]
    ELSE its

(***************************************************************************)
(* updateStock.run([quantity, item_id, quantity], callback): the next      *)
(* queued run, and its callback, which sets stockError on an error or on   *)
(* zero changed rows.                                                      *)
(***************************************************************************)
RunUpdateStock(st, f) ==
  LET r == st.o
      i == preq[r].updDone + 1
      line == LinesOf(r)[i]
      id == line.item_id.v
      q == line.quantity.v
      changes == IF f THEN 0 ELSE UpdateStockChanges(tables.items, id, q)
  IN /\ tables' = IF f THEN tables
                  ELSE [tables EXCEPT !.items = UpdateStockItems(@, id, q)]
     /\ SetReq(r, [preq[r] EXCEPT
                     !.updDone = i,
                     !.stockError = IF f \/ changes = 0 THEN TRUE ELSE @])
     /\ SetSched(IF i < Len(LinesOf(r))
                   THEN ContinueStatement(Here)
                   ELSE EndStatement(Here, st))
     /\ UNCHANGED <<journal, inTxn, crud, crashed>>

(***************************************************************************)
(* db.run("COMMIT", callback).  COMMIT fails when no transaction is open   *)
(* or on a storage fault (the transaction then stays open); the callback   *)
(* then issues ROLLBACK and calls next(err).  Otherwise it answers 201     *)
(* with purchase_id.                                                       *)
(***************************************************************************)
RunCommit(st, f) ==
  LET r == st.o IN
  IF f \/ ~inTxn
    THEN /\ SetSched(EndStatement(Schedule(Here, Stmt(r, "rollback"), FALSE),
                                  st))
         /\ SetReq(r, [preq[r] EXCEPT
                         !.resp = Resp(500, "Internal Server Error")])
         /\ UNCHANGED <<tables, journal, inTxn, crud, crashed>>
    ELSE /\ inTxn' = FALSE
         /\ journal' = EmptyTables
         /\ SetReq(r, [preq[r] EXCEPT !.pc = "committed",
                                      !.resp = Resp(201, "")])
         /\ SetSched(EndStatement(Here, st))
         /\ UNCHANGED <<tables, crud, crashed>>

(***************************************************************************)
(* db.run("ROLLBACK"), no callback: restores the tables as they were at    *)
(* BEGIN, whoever changed them since; with no transaction open it fails,   *)
(* and a failure without a callback ends the process.                      *)
(***************************************************************************)
RunRollback(st, f) ==
  LET r == st.o IN
  IF f \/ ~inTxn
    THEN Crash /\ UNCHANGED <<preq, crud>>
    ELSE /\ tables' = journal
         /\ inTxn' = FALSE
         /\ journal' = EmptyTables
         /\ SetReq(r, [preq[r] EXCEPT !.pc = "rolledback"])
         /\ SetSched(EndStatement(Here, st))
         /\ UNCHANGED <<crud, crashed>>


SetCrud(c, f) == crud' = [crud EXCEPT ![c] = f]

\* The checks shared by POST /items and PUT /items/:id.
ValidateItem(name, stock, price) ==
  IF Falsy(name) \/ ~IsString(name)
    THEN "Item name is required and must be a string"
  ELSE IF ~IsInteger(stock) \/ stock.v < 0
    THEN "Stock must be a non-negative integer"
  ELSE IF ~IsNumber(price) \/ price.v < 0
    THEN "Price must be a non-negative number"
  ELSE "valid"

\* An item request: rejected with 400, or its one statement is issued with
\* db.run(query, params, callback) in parallel mode.
ItemRequest(c, op, id, name, stock, price) ==
  /\ ~crashed
  /\ crud[c].op = "none"
  /\ \A c2 \in Cruds : c2 < c => crud[c2].op # "none"
  /\ LET v == IF op = "delete" THEN "valid"
              ELSE ValidateItem(name, stock, price) IN
     IF v # "valid"
       THEN /\ SetCrud(c, [crud[c] EXCEPT !.op = "rejected",
                                          !.resp = Resp(400, v)])
            /\ UNCHANGED <<queue, locked, active>>
       ELSE /\ SetCrud(c, [crud[c] EXCEPT !.op = op, !.id = id,
                                          !.stock = stock.v])
            /\ SetSched(Schedule(Here, Stmt(c, "item"), FALSE))
  /\ UNCHANGED <<tables, journal, inTxn, preq, crashed, faultsLeft, items0>>

\* POST /items
PostItems(c, name, stock, price) ==
  ItemRequest(c, "post", 0, name, stock, price)

\* PUT /items/:id
PutItems(c, id, name, stock, price) ==
  ItemRequest(c, "put", id, name, stock, price)

\* DELETE /items/:id
DeleteItems(c, id) ==
  ItemRequest(c, "delete", id, Undefined, Undefined, Undefined)

\* The items table with row id set to stock s (INSERT or UPDATE).
PutRow(its, id, s) ==
  [k \in DOMAIN its \cup {id} |-> IF k = id THEN s ELSE its[k]]

\* The items table without row id (DELETE).
DropRow(its, id) == [k \in DOMAIN its \ {id} |-> its[k]]

(***************************************************************************)
(* The statement of an item request and its callback: next(err) on an     *)
(* error, 404 when UPDATE or DELETE changed no row, else success.  It runs *)
(* on the shared connection, inside whatever transaction is open.          *)
(***************************************************************************)
RunItem(st, f) ==
  LET c == st.o
      op == crud[c].op
      id == IF op = "post" THEN tables.seq_items + 1 ELSE crud[c].id
      changes == IF op = "post" \/ id \in DOMAIN tables.items THEN 1 ELSE 0
  IN /\ tables' =
          IF f \/ changes = 0 THEN tables
          ELSE IF op = "post"
            THEN [tables EXCEPT !.items = PutRow(@, id, crud[c].stock),
                                !.seq_items = id]
          ELSE IF op = "put"
            THEN [tables EXCEPT !.items = PutRow(@, id, crud[c].stock)]
          ELSE [tables EXCEPT !.items = DropRow(@, id)]
     /\ SetCrud(c, [crud[c] EXCEPT !.resp =
          IF f THEN Resp(500, "Internal Server Error")
          ELSE IF op = "post" THEN Resp(201, "")
          ELSE IF changes = 0 THEN Resp(404, "Item not found")
          ELSE IF op = "put" THEN Resp(200, "")
          ELSE Resp(204, "")])
     /\ SetSched(EndStatement(Here, st))
     /\ UNCHANGED <<journal, inTxn, preq, crashed>>

(***************************************************************************)
(* One statement in flight executes; a storage fault may hit it.           *)
(***************************************************************************)
ExecStatement(st) ==
  /\ ~crashed
  /\ st \in active
  /\ \E f \in FaultChoices :
       /\ UseFault(f)
       /\ CASE st.k = "begin" -> RunBegin(st, f)
            [] st.k = "insertPurchase" -> RunInsertPurchase(st, f)
            [] st.k = "insertPurchaseItem" -> RunInsertPurchaseItem(st, f)
            [] st.k = "updateStock" -> RunUpdateStock(st, f)
            [] st.k = "commit" -> RunCommit(st, f)
            [] st.k = "rollback" -> RunRollback(st, f)
            [] st.k = "item" -> RunItem(st, f)
  /\ UNCHANGED items0

(***************************************************************************)
(* Inputs.                                                                 *)
(***************************************************************************)
SeqsUpTo(S, n) == UNION {[1..k -> S] : k \in 1..n}

GoodName == Str(3)

\* Lines that pass validation, over the item identifiers of the model.
GoodLines == {Line(Num(i), Num(q)) : i \in ItemIds, q \in 1..MaxQty}

\* Purchase requests of the concurrent specification: every valid request
\* of up to MaxLines lines, and the request with no line.
PurchaseBodies ==
  {Body(GoodName, GoodName, TRUE, ls) :
     ls \in SeqsUpTo(GoodLines, MaxLines) \cup {<<>>}}

\* Stock values an item request may carry: valid ones, a negative one and
\* a fraction.
StockInputs == {Num(n) : n \in -1..MaxStock} \cup {Frac(1)}

(***************************************************************************)
(* Start-up: the tables exist (CREATE TABLE IF NOT EXISTS) and hold the    *)
(* items of earlier runs, no purchases; nothing is scheduled.              *)
(***************************************************************************)
SeededItems == UNION {[D -> 0..MaxStock] : D \in SUBSET ItemIds}

MaxOf(S) == IF S = {} THEN 0 ELSE CHOOSE m \in S : \A k \in S : k <= m

InitStore ==
  /\ items0 \in SeededItems
  /\ tables = [EmptyTables EXCEPT !.items = items0,
                                  !.seq_items = MaxOf(DOMAIN items0)]
  /\ journal = EmptyTables
  /\ inTxn = FALSE
  /\ queue = <<>>
  /\ locked = FALSE
  /\ active = {}
  /\ preq = [r \in Reqs |-> NewReq]
  /\ crud = [c \in Cruds |-> NewCrud]
  /\ crashed = FALSE

Init == InitStore /\ faultsLeft = 0

\* Valid requests of one line.
OneLineBodies ==
  {Body(GoodName, GoodName, TRUE, <<l>>) : l \in GoodLines}

SubmitPurchase(R, B) ==
  \E r \in R : preq[r].pc = "new" /\ \E b \in B : PostPurchases(r, b)

Exec == \E st \in active : ExecStatement(st)

ItemRequests ==
  \/ \E c \in Cruds, s \in StockInputs : PostItems(c, GoodName, s, Num(5))
  \/ \E c \in Cruds, id \in ItemIds, s \in StockInputs :
       PutItems(c, id, GoodName, s, Num(5))
  \/ \E c \in Cruds, id \in ItemIds : DeleteItems(c, id)

\* Purchase requests of one line, any number of them overlapping.
Next == SubmitPurchase(Reqs, OneLineBodies) \/ Exec

Spec == Init /\ [][Next]_vars

\* One purchase request of up to MaxLines lines.
NextOne == SubmitPurchase({1}, PurchaseBodies) \/ Exec

SpecOne == Init /\ [][NextOne]_vars

\* Purchase requests and item requests on the shared connection.
NextItems == SubmitPurchase({1}, OneLineBodies) \/ Exec \/ ItemRequests

\* One item seeded; item requests add, edit and delete from there.
InitItems == Init /\ DOMAIN items0 = {1}

SpecItems == InitItems /\ [][NextItems]_vars

\* The same requests with up to MaxFaults storage faults.
InitFault == InitStore /\ faultsLeft = MaxFaults

SpecFault == InitFault /\ [][Next]_vars

(***************************************************************************)
(* The validator on request bodies of every shape: names and addresses     *)
(* that are missing, not text, empty or text; items that is not an array,  *)
(* empty, or up to MaxLines lines, each null or an object whose fields are *)
(* missing, negative, zero, positive, a fraction or a string.              *)
(***************************************************************************)
NameInputs == {Undefined, Num(7), Str(0), Str(3)}
IdInputs   == {Undefined, Num(-1), Num(0), Num(1), Frac(1), Str(1)}
QtyInputs  == {Undefined, Num(-1), Num(0), Num(1), Frac(1)}

AnyLines == {Line(i, q) : i \in IdInputs, q \in QtyInputs} \cup {NullLine}

\* Line arrays for the validator: the loop's verdict is that of the first
\* line that fails, so a second line already shows a failure behind a good
\* line and a good line behind a failure.
AnyLineSeqs == SeqsUpTo(AnyLines, IF MaxLines < 2 THEN MaxLines ELSE 2)

AnyBodies ==
  {Body(cn, sa, TRUE, ls) :
     cn \in NameInputs, sa \in NameInputs, ls \in AnyLineSeqs \cup {<<>>}}
  \cup {Body(cn, sa, FALSE, <<>>) : cn \in NameInputs, sa \in NameInputs}

InitValidate == Init /\ items0 = [i \in {1} |-> MaxStock]

NextValidate == SubmitPurchase({1}, AnyBodies) \/ Exec

SpecValidate == InitValidate /\ [][NextValidate]_vars

(***************************************************************************)
(* Vocabulary of the properties.                                           *)
(***************************************************************************)
\* Request r has a statement queued or in flight.
Outstanding(r) ==
  \/ \E st \in active : st.o = r /\ st.k # "item"
  \/ \E i \in 1..Len(queue) : queue[i].o = r /\ queue[i].k # "item"

Answered(r) == preq[r].resp # NoResp

\* The request has its response and none of its statements is left.
Finished(r) == Answered(r) /\ ~Outstanding(r)

\* No other purchase request and no item request was made so far.
RanAlone(r) ==
  /\ \A r2 \in Reqs \ {r} : preq[r2].pc = "new"
  /\ \A c \in Cruds : crud[c].op = "none"

\* Nothing is queued or in flight.
Quiescent == active = {} /\ queue = <<>>

PurchaseRows(t, r) == {p \in t.purchases : p.req = r}
LineRows(t, r) == {l \in t.purchase_items : l.req = r}

Valid(r) == Validate(preq[r].body) = "valid"

RECURSIVE Requested(_, _)
\* The total quantity the lines ls ask of item id.
Requested(ls, id) ==
  IF ls = <<>> THEN 0
  ELSE (IF Head(ls).item_id.v = id THEN Head(ls).quantity.v ELSE 0)
       + Requested(Tail(ls), id)

\* Some line asks for more than the item has, or for an item that is not
\* there.
HasFailingLine(ls, its) ==
  \E i \in 1..Len(ls) :
    \/ ls[i].item_id.v \notin DOMAIN its
    \/ its[ls[i].item_id.v] < ls[i].quantity.v

\* Every line's item is there with at least the line's quantity.
EachLineCovered(ls, its) == ~HasFailingLine(ls, its)

\* Every referenced item is there with at least the total asked of it.
TotalsCovered(ls, its) ==
  \A i \in 1..Len(ls) :
    /\ ls[i].item_id.v \in DOMAIN its
    /\ its[ls[i].item_id.v] >= Requested(ls, ls[i].item_id.v)


\* The purchase_items rows request r inserts, one per line.
RowsOfRequest(r) ==
  {[purchase_id |-> preq[r].purchaseId, item_id |-> LinesOf(r)[i].item_id.v,
    quantity |-> LinesOf(r)[i].quantity.v, req |-> r, line |-> i] :
     i \in 1..Len(LinesOf(r))}

\* Request r is persisted in full: its header, a row per line, and every
\* item's stock lower by what the request asked of it (by nothing for an
\* item it does not reference).
PurchaseApplied(r) ==
  /\ PurchaseRows(Persisted, r) = {[id |-> preq[r].purchaseId, req |-> r]}
  /\ LineRows(Persisted, r) = RowsOfRequest(r)
  /\ DOMAIN Persisted.items = DOMAIN items0
  /\ \A id \in DOMAIN items0 :
       Persisted.items[id] = items0[id] - Requested(LinesOf(r), id)

\* Nothing of request r is persisted and no stock has changed.
NothingPersisted(r) ==
  /\ PurchaseRows(Persisted, r) = {}
  /\ LineRows(Persisted, r) = {}
  /\ Persisted.items = items0

(***************************************************************************)
(* C1: a validated purchase request with a line that asks for more than    *)
(* the item's stock, or for an item that does not exist, leaves nothing    *)
(* persisted once it has finished: no purchases row, no purchase_items     *)
(* row, and every stock as before the request.                             *)
(***************************************************************************)
C1_FailedPurchaseLeavesNothing ==
  \A r \in Reqs :
    (/\ Finished(r) /\ RanAlone(r) /\ Valid(r)
     /\ HasFailingLine(LinesOf(r), items0))
      => NothingPersisted(r)

(***************************************************************************)
(* C2 as stated: a valid request run alone, every line's item being there  *)
(* with at least that line's quantity, is persisted in full and lowers     *)
(* each referenced stock by exactly the quantity asked of it.              *)
(***************************************************************************)
C2_EachLineCoveredApplied ==
  \A r \in Reqs :
    (/\ Finished(r) /\ RanAlone(r) /\ Valid(r)
     /\ EachLineCovered(LinesOf(r), items0))
      => PurchaseApplied(r)

(***************************************************************************)
(* C2 amended: a valid request run alone, every referenced item being      *)
(* there with at least the TOTAL quantity the request's lines ask of it,   *)
(* is answered 201, persisted in full (one purchases row, one              *)
(* purchase_items row per line), lowers each referenced stock by exactly   *)
(* that total and leaves every other stock unchanged.                      *)
(***************************************************************************)
C2_TotalsCoveredApplied ==
  \A r \in Reqs :
    (/\ Finished(r) /\ RanAlone(r) /\ Valid(r)
     /\ TotalsCovered(LinesOf(r), items0))
      => preq[r].resp.status = 201 /\ PurchaseApplied(r)

\* A finished two-line request on one item whose stock covers both lines,
\* with another item in the table.
C2_Witness ==
  \E r \in Reqs :
    /\ Finished(r) /\ RanAlone(r) /\ Valid(r)
    /\ TotalsCovered(LinesOf(r), items0)
    /\ Len(LinesOf(r)) = 2
    /\ LinesOf(r)[1].item_id = LinesOf(r)[2].item_id
    /\ DOMAIN items0 = ItemIds
    /\ \E id \in ItemIds : Persisted.items[id] < items0[id]

(***************************************************************************)
(* C3: in every reachable state, under any interleaving of item requests   *)
(* and purchase requests, the stock of every item is an integer >= 0, in   *)
(* the connection's view and in what is persisted.                         *)
(***************************************************************************)
C3_StockNeverNegative ==
  /\ \A id \in DOMAIN tables.items : tables.items[id] \in Nat
  /\ \A id \in DOMAIN Persisted.items : Persisted.items[id] \in Nat

\* A decrement was refused for lack of stock on an item that an item
\* request had written.
C3_Witness ==
  \E r \in Reqs, c \in Cruds :
    /\ preq[r].updDone = 1 /\ preq[r].stockError
    /\ crud[c].resp.status \in {200, 201}
    /\ LinesOf(r)[1].item_id.v \in DOMAIN tables.items
    /\ tables.items[LinesOf(r)[1].item_id.v] < LinesOf(r)[1].quantity.v

\* Request r got the success response and its purchases row is persisted.
Committed(r) ==
  preq[r].resp.status = 201 /\ PurchaseRows(Persisted, r) # {}

NCommitted == Cardinality({r \in Reqs : Committed(r)})

(***************************************************************************)
(* C4: MaxReq purchase requests of one line of quantity q on the same item *)
(* of initial stock S, with MaxReq * q > S: in every state the committed   *)
(* purchases times q do not exceed S, and when all have finished the stock *)
(* is S minus q times the committed purchases.                             *)
(***************************************************************************)
C4_CommittedWithinStock ==
  \A id \in DOMAIN items0, q \in 1..MaxQty :
    (/\ \A r \in Reqs : /\ preq[r].pc # "new"
                        /\ LinesOf(r) = <<Line(Num(id), Num(q))>>
     /\ MaxReq * q > items0[id])
      => /\ NCommitted * q <= items0[id]
         /\ (\A r \in Reqs : Finished(r))
              => Persisted.items[id] = items0[id] - q * NCommitted

RECURSIVE SumQuantity(_)
\* The quantities of a set of purchase_items rows, added up.
SumQuantity(rows) ==
  IF rows = {} THEN 0
  ELSE LET row == CHOOSE x \in rows : TRUE
       IN row.quantity + SumQuantity(rows \ {row})

Sold(t, id) == SumQuantity({l \in t.purchase_items : l.item_id = id})

(***************************************************************************)
(* C5: whenever no purchase request is in progress (stock being changed    *)
(* by purchases only), for every item the quantities of the persisted      *)
(* purchase_items rows that reference it add up to its initial stock minus *)
(* its current stock.                                                      *)
(***************************************************************************)
C5_LinesMatchDecrements ==
  (Quiescent /\ \A r \in Reqs : preq[r].pc = "new" \/ Finished(r))
    => \A id \in DOMAIN items0 :
         Sold(Persisted, id) = items0[id] - Persisted.items[id]

(***************************************************************************)
(* C6: a request with two or more lines on the same item, each line within *)
(* the item's stock but the lines together beyond it, is rolled back as a  *)
(* whole: the stock ends at its value before the request and no purchases  *)
(* or purchase_items row is persisted.                                     *)
(***************************************************************************)
C6_JointlyExceedingRolledBack ==
  \A r \in Reqs, id \in DOMAIN items0 :
    (/\ Finished(r) /\ RanAlone(r) /\ Valid(r)
     /\ Len(LinesOf(r)) >= 2
     /\ \A i \in 1..Len(LinesOf(r)) :
          /\ LinesOf(r)[i].item_id.v = id
          /\ LinesOf(r)[i].quantity.v <= items0[id]
     /\ Requested(LinesOf(r), id) > items0[id])
      => NothingPersisted(r)

(***************************************************************************)
(* C7: a purchases row is persisted only for a request answered 201, and  *)
(* a request answered with an error (400 or 500) leaves, once it has       *)
(* finished, no purchases row and no purchase_items row of its own         *)
(* persisted, whatever the interleaving and the storage faults.            *)
(***************************************************************************)
C7_ErrorAnswerPersistsNothing ==
  \A r \in Reqs :
    /\ PurchaseRows(Persisted, r) # {} => preq[r].resp.status = 201
    /\ (Finished(r) /\ preq[r].resp.status \in {400, 500})
         => /\ PurchaseRows(Persisted, r) = {}
            /\ LineRows(Persisted, r) = {}

\* x is a positive integer.
PositiveInteger(x) == x.t = "number" /\ x.v > 0

\* x is a non-empty text.
NonEmptyText(x) == x.t = "string" /\ x.v > 0

\* Every line is an object with a positive integer item identifier and a
\* positive integer quantity.
LinesWellFormed(ls) ==
  \A i \in 1..Len(ls) :
    /\ ~ls[i].isNull
    /\ PositiveInteger(ls[i].item_id)
    /\ PositiveInteger(ls[i].quantity)

\* The request is valid in the words of the specification.
WellFormed(b) ==
  /\ NonEmptyText(b.customer_name)
  /\ NonEmptyText(b.shipping_address)
  /\ b.items.isArray /\ b.items.elems # <<>>
  /\ LinesWellFormed(b.items.elems)

\* No statement was issued and the store is as it was at start-up.
StoreUntouched ==
  /\ Quiescent
  /\ ~inTxn
  /\ tables = [EmptyTables EXCEPT !.items = items0,
                                  !.seq_items = MaxOf(DOMAIN items0)]

(***************************************************************************)
(* C8: a request that fails validation (name or address missing or not     *)
(* text, items empty or not a sequence, or an invalid line) is answered    *)
(* with a validation error (400) and no storage statement is issued for    *)
(* it: the store is unchanged.                                             *)
(***************************************************************************)
C8_InvalidRequestTouchesNothing ==
  \A r \in Reqs :
    (preq[r].pc # "new" /\ ~WellFormed(preq[r].body))
      => preq[r].resp.status = 400 /\ StoreUntouched

(***************************************************************************)
(* C9: a request with a line whose item identifier or quantity is not a    *)
(* positive integer is rejected with a validation error (400), and only    *)
(* requests whose every line has a positive integer identifier and a       *)
(* positive integer quantity reach the transaction.                        *)
(***************************************************************************)
C9_OnlyPositiveLinesReachTransaction ==
  \A r \in Reqs :
    preq[r].pc # "new" =>
      /\ ~LinesWellFormed(LinesOf(r)) => preq[r].resp.status = 400
      /\ preq[r].pc # "rejected" => LinesWellFormed(LinesOf(r))

(***************************************************************************)
(* C10: submitting the same valid request twice makes two independent      *)
(* purchases: when both have finished and the stock covers both, both are  *)
(* answered 201 and both are persisted; requests answered 201 never carry  *)
(* the same purchase_id; and no two purchases rows share an identifier.    *)
(***************************************************************************)
C10_ResubmissionMakesDistinctPurchases ==
  /\ \A r1, r2 \in Reqs :
       (r1 # r2 /\ preq[r1].resp.status = 201 /\ preq[r2].resp.status = 201)
         => preq[r1].purchaseId # preq[r2].purchaseId
  /\ \A t \in {tables, Persisted} :
       \A p1, p2 \in t.purchases : p1.id = p2.id => p1 = p2
  /\ \A r1, r2 \in Reqs :
       (/\ r1 # r2 /\ Finished(r1) /\ Finished(r2)
        /\ Valid(r1) /\ preq[r1].body = preq[r2].body
        /\ TotalsCovered(LinesOf(r1) \o LinesOf(r2), items0))
         => /\ preq[r1].resp.status = 201 /\ preq[r2].resp.status = 201
            /\ \A r \in {r1, r2} :
                 /\ PurchaseRows(Persisted, r)
                      = {[id |-> preq[r].purchaseId, req |-> r]}
                 /\ LineRows(Persisted, r) = RowsOfRequest(r)

\* Two finished submissions of the same request, both answered 201.
C10_Witness ==
  \E r1, r2 \in Reqs :
    /\ r1 # r2 /\ Finished(r1) /\ Finished(r2)
    /\ Valid(r1) /\ preq[r1].body = preq[r2].body
    /\ TotalsCovered(LinesOf(r1) \o LinesOf(r2), items0)
    /\ preq[r1].resp.status = 201 /\ preq[r2].resp.status = 201

\* A statement of kind k of request r is queued or in flight.
StmtOutstanding(r, k) ==
  \/ Stmt(r, k) \in active
  \/ \E i \in 1..Len(queue) : queue[i].o = r /\ queue[i].k = k

\* COMMIT of request r has been issued: it is outstanding or has succeeded.
CommitIssued(r) == StmtOutstanding(r, "commit") \/ preq[r].pc = "committed"

(***************************************************************************)
(* C11: COMMIT of a purchase is issued only when the result of every one   *)
(* of its decrements is known and none of them failed: whenever COMMIT is  *)
(* outstanding or done, no decrement of the purchase is outstanding, all   *)
(* its decrements have run and none changed zero rows or had an error.     *)
(***************************************************************************)
C11_CommitAfterAllDecrements ==
  \A r \in Reqs :
    CommitIssued(r) =>
      /\ ~StmtOutstanding(r, "updateStock")
      /\ preq[r].updDone = Len(LinesOf(r))
      /\ ~preq[r].stockError

\* Request r has opened the connection's transaction and not yet ended it.
InTransaction(r) ==
  /\ inTxn
  /\ \/ preq[r].pc = "pending" /\ ~StmtOutstanding(r, "begin")
     \/ preq[r].pc = "lines"

\* The requests that own a row written since BEGIN.
UncommittedOwners ==
  {p.req : p \in tables.purchases \ journal.purchases}
    \cup {l.req : l \in tables.purchase_items \ journal.purchase_items}

ErrorAfterBegin(r) ==
  /\ preq[r].pc \notin {"new", "rejected"}
  /\ preq[r].resp.status \in {400, 500}

(***************************************************************************)
(* C13: when a request that opened a transaction has been answered with an *)
(* error, its rollback has taken effect: no ROLLBACK of it is outstanding  *)
(* and none of its rows is in the tables of the connection.                *)
(***************************************************************************)
C13_RolledBackBeforeErrorAnswer ==
  \A r \in Reqs :
    ErrorAfterBegin(r) =>
      /\ ~StmtOutstanding(r, "rollback")
      /\ PurchaseRows(tables, r) = {}
      /\ LineRows(tables, r) = {}

(***************************************************************************)
(* C14: a purchase is never committed with fewer purchase_items rows than  *)
(* the request has lines: once nothing of a request is left to run (or the *)
(* process has ended), a persisted purchases row has one persisted         *)
(* purchase_items row per line, also when a line insert fails.             *)
(***************************************************************************)
C14_NoPurchaseWithMissingLines ==
  \A r \in Reqs :
    (PurchaseRows(Persisted, r) # {} /\ ~Outstanding(r))
      => LineRows(Persisted, r) = RowsOfRequest(r)

\* Request r has reached one of the two final states.
Terminal(r) == preq[r].pc \in {"committed", "rolledback"}

(***************************************************************************)
(* C15: Committed and RolledBack are terminal: after the COMMIT of a       *)
(* request has succeeded no ROLLBACK of it is outstanding, after its       *)
(* ROLLBACK no COMMIT of it is outstanding, and after either none of its   *)
(* line statements is still to take effect.                                *)
(***************************************************************************)
C15_TerminalStatesAreFinal ==
  \A r \in Reqs :
    /\ preq[r].pc = "committed" => ~StmtOutstanding(r, "rollback")
    /\ preq[r].pc = "rolledback" => ~StmtOutstanding(r, "commit")
    /\ Terminal(r) => /\ ~StmtOutstanding(r, "insertPurchaseItem")
                      /\ ~StmtOutstanding(r, "updateStock")

(***************************************************************************)
(* C16: whenever a request has been answered 201 with purchase_id p, the   *)
(* purchases row p and every purchase_items row of the request are         *)
(* persisted, at the moment of the answer and ever after.                  *)
(***************************************************************************)
C16_SuccessIsDurable ==
  \A r \in Reqs :
    preq[r].resp.status = 201 =>
      /\ PurchaseRows(Persisted, r) = {[id |-> preq[r].purchaseId, req |-> r]}
      /\ LineRows(Persisted, r) = RowsOfRequest(r)

\* The purchase requests of Spec with every issued statement eventually
\* executed and answered by the store.
SpecLive == Init /\ [][Next]_vars /\ WF_vars(Exec)

\* A response, once sent, is the response: none is sent after it.
AnsweredOnce ==
  \A r \in Reqs : Answered(r) => preq'[r].resp = preq[r].resp

(***************************************************************************)
(* C17: every submitted purchase request eventually has a response, and    *)
(* exactly one: a response that was sent is never followed by another.     *)
(***************************************************************************)
C17_EventuallyAnsweredOnce ==
  /\ \A r \in Reqs : [](preq[r].pc # "new" => <>Answered(r))
  /\ [][AnsweredOnce]_vars

\* Item requests and a purchase request on the shared connection, with up
\* to MaxFaults storage faults.
InitItemsFault == InitStore /\ faultsLeft = MaxFaults /\ DOMAIN items0 = {1}

SpecItemsFault == InitItemsFault /\ [][NextItems]_vars

\* Item request c was answered with success.
Acknowledged(c) == crud[c].resp.status \in {200, 201, 204}

\* Some line of some submitted purchase request names item id.
Purchased(id) ==
  \E r \in Reqs : \E i \in 1..Len(LinesOf(r)) : LinesOf(r)[i].item_id.v = id

\* The change item request c made is in the tables: the created row is
\* there, the updated row has the stock written (less what purchases took
\* of it), the deleted row is gone.
ItemChangeInPlace(c) ==
  CASE crud[c].op = "post" -> DOMAIN tables.items \ DOMAIN items0 # {}
    [] crud[c].op = "put" ->
         /\ crud[c].id \in DOMAIN tables.items
         /\ tables.items[crud[c].id] <= crud[c].stock
         /\ ~Purchased(crud[c].id)
              => tables.items[crud[c].id] = crud[c].stock
    [] crud[c].op = "delete" -> crud[c].id \notin DOMAIN tables.items
    [] OTHER -> TRUE

(***************************************************************************)
(* C19: an item create, update or delete that was answered with success    *)
(* is never undone by a purchase request: while the process runs and no    *)
(* other item request was made, the acknowledged change stays in the       *)
(* tables, whatever a concurrent purchase transaction commits or rolls     *)
(* back.                                                                   *)
(***************************************************************************)
C19_AcknowledgedItemChangeStays ==
  \A c \in Cruds :
    (/\ Acknowledged(c)
     /\ ~crashed
     /\ \A c2 \in Cruds \ {c} : crud[c2].op = "none")
      => ItemChangeInPlace(c)

(***************************************************************************)
(* The earlier version of the purchase handler (src/unnamed/part_000).     *)
(* It checks the lines inside the header INSERT's callback, answers 400    *)
(* and issues ROLLBACK from the callback of a failed decrement, and        *)
(* issues COMMIT after the line loop whatever the decrements will report.  *)
(* A second res.status(...).json(...) for a request already answered       *)
(* throws (headers already sent); thrown inside a statement callback, the  *)
(* exception ends the process.  pc = "threw" records that.                 *)
(***************************************************************************)

\* The check made before db.serialize().
ValidateEarlier(b) ==
  IF \/ Falsy(b.customer_name) \/ Falsy(b.shipping_address)
     \/ ~b.items.isArray \/ Len(b.items.elems) = 0
    THEN "Missing required purchase data."
    ELSE "valid"

\* !item_id || !quantity || quantity <= 0
LineRefusedEarlier(item) ==
  Falsy(item.item_id) \/ Falsy(item.quantity) \/ item.quantity.v <= 0

RECURSIVE ValidPrefix(_)
\* The lines the loop passes before it meets a refused line and returns.
ValidPrefix(ls) ==
  IF ls = <<>> \/ LineRefusedEarlier(Head(ls)) THEN 0
  ELSE 1 + ValidPrefix(Tail(ls))

PostPurchasesEarlier(r, b) ==
  /\ ~crashed
  /\ preq[r].pc = "new"
  /\ \A r2 \in Reqs : r2 < r => preq[r2].pc # "new"
  /\ LET v == ValidateEarlier(b) IN
     IF v # "valid"
       THEN /\ SetReq(r, [preq[r] EXCEPT !.pc = "rejected", !.body = b,
                            !.resp = Resp(400, v)])
            /\ UNCHANGED <<queue, locked, active>>
       ELSE /\ SetReq(r, [preq[r] EXCEPT !.pc = "pending", !.body = b])
            /\ SetSched(Schedule(Schedule(Here, Stmt(r, "begin"), TRUE),
                                 Stmt(r, "insertPurchase"), TRUE))
  /\ UNCHANGED <<tables, journal, inTxn, crud, crashed, faultsLeft, items0>>

\* The process ends on the exception of a second response for request r;
\* t is what the connection had made durable.
ThrowOnResponse(r, t) ==
  /\ crashed' = TRUE
  /\ tables' = t
  /\ journal' = t
  /\ inTxn' = FALSE
  /\ queue' = <<>>
  /\ locked' = FALSE
  /\ active' = {}
  /\ SetReq(r, [preq[r] EXCEPT !.pc = "threw"])
  /\ UNCHANGED crud

\* INSERT INTO purchases and its callback: the line loop queues the runs
\* of the lines it passes; at a refused line it issues ROLLBACK, answers
\* 400 and returns; after the last line it issues COMMIT.
RunInsertPurchaseEarlier(st, f) ==
  LET r == st.o IN
  IF f
    THEN /\ SetSched(EndStatement(Schedule(Here, Stmt(r, "rollback"), FALSE),
                                  st))
         /\ SetReq(r, [preq[r] EXCEPT !.resp = Resp(500, "err.message")])
         /\ UNCHANGED <<tables, journal, inTxn, crud, crashed>>
    ELSE LET lastID == NextPurchaseId(tables)
             n == ValidPrefix(LinesOf(r))
             refused == n < Len(LinesOf(r))
             s1 == IF n = 0 THEN Here
                   ELSE Schedule(Schedule(Here, Stmt(r, "insertPurchaseItem"),
                                          FALSE),
                                 Stmt(r, "updateStock"), FALSE)
             s2 == Schedule(s1, IF refused THEN Stmt(r, "rollback")
                                           ELSE Stmt(r, "commit"), FALSE)
         IN /\ tables' = [tables EXCEPT
                            !.purchases = @ \cup {[id |-> lastID, req |-> r]},
                            !.seq_purchases = lastID]
            /\ SetReq(r, [preq[r] EXCEPT
                            !.pc = "lines",
                            !.purchaseId = lastID,
                            !.resp = IF refused
                                       THEN Resp(400, "Invalid item quantity or ID.")
                                       ELSE @])
            /\ SetSched(EndStatement(s2, st))
            /\ UNCHANGED <<journal, inTxn, crud, crashed>>

\* insertPurchaseItem.run([purchaseId, item_id, quantity]), no callback.
RunInsertPurchaseItemEarlier(st, f) ==
  LET r == st.o
      i == preq[r].insDone + 1
      line == LinesOf(r)[i]
      row == [purchase_id |-> preq[r].purchaseId, item_id |-> line.item_id.v,
              quantity |-> line.quantity.v, req |-> r, line |-> i]
  IN IF f
       THEN Crash /\ UNCHANGED <<preq, crud>>
       ELSE /\ tables' = [tables EXCEPT !.purchase_items = @ \cup {row}]
            /\ SetReq(r, [preq[r] EXCEPT !.insDone = i])
            /\ SetSched(IF i < ValidPrefix(LinesOf(r))
                          THEN ContinueStatement(Here)
                          ELSE EndStatement(Here, st))
            /\ UNCHANGED <<journal, inTxn, crud, crashed>>

\* updateStock.run([quantity, item_id, quantity], callback): on an error
\* or zero changed rows the callback issues ROLLBACK and answers 400.
RunUpdateStockEarlier(st, f) ==
  LET r == st.o
      i == preq[r].updDone + 1
      line == LinesOf(r)[i]
      id == line.item_id.v
      q == line.quantity.v
      changes == IF f THEN 0 ELSE UpdateStockChanges(tables.items, id, q)
      failed == f \/ changes = 0
      s1 == IF failed THEN Schedule(Here, Stmt(r, "rollback"), FALSE)
                      ELSE Here
  IN IF failed /\ Answered(r)
       THEN ThrowOnResponse(r, Persisted)
       ELSE /\ tables' = IF failed THEN tables
                         ELSE [tables EXCEPT
                                 !.items = UpdateStockItems(@, id, q)]
            /\ SetReq(r, [preq[r] EXCEPT
                            !.updDone = i,
                            !.resp = IF failed
                                       THEN Resp(400, "Insufficient stock or item not found.")
                                       ELSE @])
            /\ SetSched(IF i < ValidPrefix(LinesOf(r))
                          THEN ContinueStatement(s1)
                          ELSE EndStatement(s1, st))
            /\ UNCHANGED <<journal, inTxn, crud, crashed>>

\* db.run("COMMIT", callback): on an error the callback issues ROLLBACK
\* and answers 500, else it answers 201.
RunCommitEarlier(st, f) ==
  LET r == st.o IN
  IF f \/ ~inTxn
    THEN IF Answered(r)
           THEN ThrowOnResponse(r, Persisted)
           ELSE /\ SetSched(EndStatement(
                              Schedule(Here, Stmt(r, "rollback"), FALSE), st))
                /\ SetReq(r, [preq[r] EXCEPT
                                !.resp = Resp(500, "err.message")])
                /\ UNCHANGED <<tables, journal, inTxn, crud, crashed>>
    ELSE IF Answered(r)
           THEN ThrowOnResponse(r, tables)
           ELSE /\ inTxn' = FALSE
                /\ journal' = EmptyTables
                /\ SetReq(r, [preq[r] EXCEPT !.pc = "committed",
                                             !.resp = Resp(201, "")])
                /\ SetSched(EndStatement(Here, st))
                /\ UNCHANGED <<tables, crud, crashed>>

ExecStatementEarlier(st) ==
  /\ ~crashed
  /\ st \in active
  /\ \E f \in FaultChoices :
       /\ UseFault(f)
       /\ CASE st.k = "begin" -> RunBegin(st, f)
            [] st.k = "insertPurchase" -> RunInsertPurchaseEarlier(st, f)
            [] st.k = "insertPurchaseItem" ->
                 RunInsertPurchaseItemEarlier(st, f)
            [] st.k = "updateStock" -> RunUpdateStockEarlier(st, f)
            [] st.k = "commit" -> RunCommitEarlier(st, f)
            [] st.k = "rollback" -> RunRollback(st, f)
  /\ UNCHANGED items0

\* A line the loop of the earlier handler refuses (quantity 0).
RefusedLine == Line(Num(1), Num(0))

\* Requests for the earlier handler: the valid ones, one without lines,
\* and those whose last line is refused.
EarlierBodies ==
  PurchaseBodies
    \cup {Body(GoodName, GoodName, TRUE, ls \o <<RefusedLine>>) :
            ls \in {<<>>} \cup {<<l>> : l \in GoodLines}}

SubmitPurchaseEarlier ==
  \E b \in EarlierBodies : PostPurchasesEarlier(1, b)

ExecEarlier == \E st \in active : ExecStatementEarlier(st)

NextEarlier == SubmitPurchaseEarlier \/ ExecEarlier

SpecEarlier == Init /\ [][NextEarlier]_vars

\* Request r got the answer of a failed decrement.
StockErrorAnswered(r) ==
  preq[r].resp = Resp(400, "Insufficient stock or item not found.")

(***************************************************************************)
(* C18: in the earlier handler, once a decrement callback has answered     *)
(* 'Insufficient stock or item not found.' and issued ROLLBACK, no further *)
(* response is sent for the request and no COMMIT is outstanding or takes  *)
(* effect for it.                                                          *)
(***************************************************************************)
C18_EarlierAnswersOnceWithoutCommit ==
  \A r \in Reqs :
    StockErrorAnswered(r) =>
      /\ preq[r].pc # "threw"
      /\ ~StmtOutstanding(r, "commit")
      /\ PurchaseRows(Persisted, r) = {}

=============================================================================
